---- MODULE Spec2Model ----
(***************************************************************************)
(* A model of gosling (gos): the data-source factories (data.py), the      *)
(* renderer and theme registries with the HTML embedding (display.py) and  *)
(* the copy-on-write builder methods of Track / PartialTrack (api.py).     *)
(*                                                                         *)
(* Python values are tagged records, so that None, strings, numbers and    *)
(* dicts can be held in one slot and compared.                             *)
(***************************************************************************)
EXTENDS Integers, Sequences, FiniteSets, TLC

VARIABLES
    desc,            \* data.py: the last factory call and its outcome
    renderer_objs,   \* display.py: heap of Renderer objects (_output_div, kwargs)
    renderers,       \* display.py: the module-level RendererRegistry
    themes,          \* display.py: the module-level ThemesRegistry
    reg_last,        \* display.py: the last registry / render call and its outcome
    last_enabled,    \* history: argument of the most recent successful themes.enable
    objs,            \* api.py: the live objects (Track, PartialTrack, Root, dict) by address
    env,             \* api.py: the calling program's names and the objects they are bound to
    last,            \* api.py: the last builder call and its outcome
    root_snap,       \* history: per Root name, the value of its track when chart() built it
    touched          \* history: the Root names whose track was written through the Root

data_vars == <<desc>>
reg_vars  == <<renderer_objs, renderers, themes, reg_last, last_enabled>>
node_vars == <<objs, env, last, root_snap, touched>>
vars      == <<desc, renderer_objs, renderers, themes, reg_last, last_enabled,
               objs, env, last, root_snap, touched>>

(***************************************************************************)
(* Python values                                                           *)
(***************************************************************************)
None        == [t |-> "None"]
PyStr(s)    == [t |-> "str", v |-> s]
PyInt(n)    == [t |-> "int", v |-> n]
PyDict(d)   == [t |-> "dict", v |-> d]
PyError(e)  == [t |-> "error", v |-> e]
EmptyDict   == [k \in {} |-> None]

IsError(x)  == x.t = "error"

\* Python truthiness of the values used here: None, "" and {} are falsy.
Truthy(x) ==
    CASE x.t = "None" -> FALSE
      [] x.t = "dict" -> DOMAIN x.v # {}
      [] x.t = "str"  -> x.v # ""
      [] x.t = "int"  -> x.v # 0
      [] OTHER        -> TRUE

\* dict.update / {**a, **b}: the keys of b win.
Update(a, b) ==
    [k \in DOMAIN a \cup DOMAIN b |-> IF k \in DOMAIN b THEN b[k] ELSE a[k]]

(***************************************************************************)
(* data.py: the data-source factories                                      *)
(***************************************************************************)
Urls == {"a.csv", "b.bw", "c.json"}

Options ==
    { EmptyDict,
      [sep |-> PyStr(",")],
      [chromosomeField |-> PyStr("chr")],
      [sep |-> PyStr("\t"), chromosomeField |-> PyStr("chr")],
      [type |-> PyStr("other")],
      [url |-> PyStr("z.csv")],
      [type |-> PyStr("other"), sep |-> PyStr(",")] }

\* The mutant: a dict display {"type": tag, "url": url, **kwargs}, in which a
\* repeated key is no error and the options win.
DictCallOverride(tag, url, kwargs) ==
    PyDict(Update([type |-> PyStr(tag), url |-> PyStr(url)], kwargs))

\* dict(type=tag, url=url, **kwargs): a keyword given twice is a TypeError.
DictCall(tag, url, kwargs) ==
    IF DOMAIN kwargs \cap {"type", "url"} # {}
    THEN PyError("TypeError")
    ELSE PyDict(Update([type |-> PyStr(tag), url |-> PyStr(url)], kwargs))

\* def f(url, **kwargs): binding url positionally and again by keyword is a
\* TypeError raised by the call itself.
Bind(tag, url, kwargs) ==
    IF "url" \in DOMAIN kwargs THEN PyError("TypeError")
    ELSE DictCall(tag, url, kwargs)

csv(url, kwargs)      == Bind("csv", url, kwargs)
bigwig(url, kwargs)   == Bind("bigwig", url, kwargs)
json(url, kwargs)     == Bind("json", url, kwargs)
beddb(url, kwargs)    == Bind("beddb", url, kwargs)
vector(url, kwargs)   == Bind("vector", url, kwargs)
multivec(url, kwargs) == Bind("multivec", url, kwargs)
bam(url, kwargs)      == Bind("bam", url, kwargs)
matrix(url, kwargs)   == Bind("matrix", url, kwargs)

Called(f, u, kw, out) == [op |-> f, url |-> u, kwargs |-> kw, out |-> out]

CallCsv ==
    \E u \in Urls, kw \in Options :
        desc' = Called("csv", u, kw, csv(u, kw))
CallBigwig ==
    \E u \in Urls, kw \in Options :
        desc' = Called("bigwig", u, kw, bigwig(u, kw))
CallJson ==
    \E u \in Urls, kw \in Options :
        desc' = Called("json", u, kw, json(u, kw))
CallBeddb ==
    \E u \in Urls, kw \in Options :
        desc' = Called("beddb", u, kw, beddb(u, kw))
CallVector ==
    \E u \in Urls, kw \in Options :
        desc' = Called("vector", u, kw, vector(u, kw))
CallMultivec ==
    \E u \in Urls, kw \in Options :
        desc' = Called("multivec", u, kw, multivec(u, kw))
CallBam ==
    \E u \in Urls, kw \in Options :
        desc' = Called("bam", u, kw, bam(u, kw))
CallMatrix ==
    \E u \in Urls, kw \in Options :
        desc' = Called("matrix", u, kw, matrix(u, kw))

(***************************************************************************)
(* display.py: registries                                                  *)
(***************************************************************************)
THEMES == {"dark", "ensembl", "excel", "ggplot", "google", "igv", "jbrowse",
           "light", "ucsc", "warm", "washu"}

\* 'v0.17.0', as its characters
SCHEMA_VERSION == <<"v", "0", ".", "1", "7", ".", "0">>

AssertionError == PyError("AssertionError")

\* What a method call leaves behind: the receiver after the call and the value
\* returned (None for a procedure) or the exception raised.
Outcome(self, out) == [self |-> self, out |-> out]

\* The mutant: register without the assertion on built-in names.
ThemesRegistry_register_unchecked(self, name, theme) ==
    Outcome([self EXCEPT !.custom_themes = Update(@, [k \in {name} |-> theme])], None)

ThemesRegistry_register(self, name, theme) ==
    IF name \in self.themes
    THEN Outcome(self, AssertionError)
    ELSE Outcome([self EXCEPT !.custom_themes = Update(@, [k \in {name} |-> theme])],
                 None)

\* The mutant: enable without the assertion.
ThemesRegistry_enable_unchecked(self, name) ==
    Outcome([self EXCEPT !.active = PyStr(name)], None)

ThemesRegistry_enable(self, name) ==
    IF name \in DOMAIN self.custom_themes \/ name \in self.themes
    THEN Outcome([self EXCEPT !.active = PyStr(name)], None)
    ELSE Outcome(self, AssertionError)

\* The mutant: get that answers with the active name, custom theme or not.
ThemesRegistry_get_name(self) == self.active

\* The mutant: get that raises when nothing is enabled.
ThemesRegistry_get_raising(self) ==
    IF self.active = None THEN PyError("RegistryError")
    ELSE IF self.active.v \in self.themes THEN self.active
    ELSE IF self.active.v \in DOMAIN self.custom_themes
         THEN self.custom_themes[self.active.v]
         ELSE PyError("KeyError")

ThemesRegistry_get(self) ==
    IF self.active = None THEN None
    ELSE IF self.active.v \in self.themes THEN self.active
    ELSE IF self.active.v \in DOMAIN self.custom_themes
         THEN self.custom_themes[self.active.v]
         ELSE PyError("KeyError")

RendererRegistry_register(self, name, renderer) ==
    Outcome([self EXCEPT !.renderers = Update(@, [k \in {name} |-> renderer])], None)

\* The mutant: enable without the assertion.
RendererRegistry_enable_unchecked(self, name) ==
    Outcome([self EXCEPT !.active = PyStr(name)], None)

RendererRegistry_enable(self, name) ==
    IF name \in DOMAIN self.renderers
    THEN Outcome([self EXCEPT !.active = PyStr(name)], None)
    ELSE Outcome(self, AssertionError)

PyRenderer(id) == [t |-> "Renderer", v |-> id]

RendererRegistry_get(self) ==
    IF self.active.t = "str" /\ self.active.v \in DOMAIN self.renderers
    THEN PyRenderer(self.renderers[self.active.v])
    ELSE AssertionError

(***************************************************************************)
(* display.py: embedding                                                   *)
(***************************************************************************)
TypeError == PyError("TypeError")

\* str.lstrip(chars) on a string given as its characters
RECURSIVE lstrip(_, _)
lstrip(s, chars) ==
    IF s # <<>> /\ Head(s) \in chars THEN lstrip(Tail(s), chars) ELSE s

\* json.dumps, as the JSON value it writes
RECURSIVE JsonDumps(_)
JsonDumps(x) ==
    CASE x.t = "None" -> [j |-> "null"]
      [] x.t = "str"  -> [j |-> "string", v |-> x.v]
      [] x.t = "int"  -> [j |-> "number", v |-> x.v]
      [] x.t = "dict" -> [j |-> "object",
                          v |-> [k \in DOMAIN x.v |-> JsonDumps(x.v[k])]]

\* the keyword parameters of spec_to_html other than spec, with their defaults
SpecToHtmlDefaults ==
    [ gosling_version |-> PyStr(lstrip(SCHEMA_VERSION, {"v"})),
      higlass_version |-> PyStr("1.11"),
      react_version   |-> PyStr("17"),
      pixijs_version  |-> PyStr("6"),
      base_url        |-> PyStr("https://unpkg.com"),
      output_div      |-> PyStr("vis"),
      embed_options   |-> None ]

\* HTML_TEMPLATE.render(...): the document, as the values substituted into it
Render(spec, embed_options, a) ==
    [ t |-> "html",
      spec            |-> JsonDumps(spec),
      embed_options   |-> JsonDumps(embed_options),
      gosling_version |-> a.gosling_version,
      higlass_version |-> a.higlass_version,
      react_version   |-> a.react_version,
      pixijs_version  |-> a.pixijs_version,
      base_url        |-> a.base_url,
      output_div      |-> a.output_div ]

\* The mutant: the default options built once, when the function is defined
\* (nothing enabled yet), instead of at each call.
spec_to_html_early_default(registry, spec, kw) ==
    IF ~(DOMAIN kw \subseteq DOMAIN SpecToHtmlDefaults) THEN TypeError
    ELSE LET a == Update(SpecToHtmlDefaults, kw)
             embed_options ==
                 IF Truthy(a.embed_options) THEN a.embed_options
                 ELSE PyDict([padding |-> PyInt(0), theme |-> None])
         IN  Render(spec, embed_options, a)

\* spec_to_html(spec, **kw), with registry the module-level themes
spec_to_html(registry, spec, kw) ==
    IF ~(DOMAIN kw \subseteq DOMAIN SpecToHtmlDefaults) THEN TypeError
    ELSE LET a == Update(SpecToHtmlDefaults, kw)
             theme == ThemesRegistry_get(registry)
             embed_options ==
                 IF Truthy(a.embed_options) THEN a.embed_options
                 ELSE PyDict([padding |-> PyInt(0), theme |-> theme])
         IN  IF ~Truthy(a.embed_options) /\ IsError(theme) THEN theme
             ELSE Render(spec, embed_options, a)

\* Renderer.__init__(output_div="jupyter-gosling-{}", **kwargs)
Renderer_init(kw) ==
    [ output_div |-> IF "output_div" \in DOMAIN kw THEN kw.output_div
                     ELSE PyStr("jupyter-gosling-{}"),
      kwargs     |-> [k \in DOMAIN kw \ {"output_div"} |-> kw[k]] ]

\* Renderer.output_div: self._output_div.format(uuid.uuid4().hex)
Renderer_output_div(self, hex) ==
    [t |-> "format", v |-> self.output_div.v, arg |-> hex]

\* HTMLRenderer.__call__(spec, **meta)
HTMLRenderer_call(registry, self, spec, meta, hex) ==
    LET kwargs == Update(self.kwargs, meta)
        html   == IF "output_div" \in DOMAIN kwargs THEN TypeError
                  ELSE spec_to_html(registry, spec,
                           Update(kwargs, [output_div |-> Renderer_output_div(self, hex)]))
    IN  Outcome(self,
                IF IsError(html) THEN html ELSE PyDict([k \in {"text/html"} |-> html]))

(***************************************************************************)
(* display.py: the module-level objects and the calls made on them         *)
(***************************************************************************)
MaxRenderers == 2      \* Renderer objects ever constructed

BuiltinRendererNames == <<"default", "html", "colab", "kaggle", "zeppelin">>

RegisterNames  == {"custom"}
RendererNames  == {"default", "custom", "missing"}
ThemeNames     == {"dark", "light", "mytheme", "not-a-theme"}
CustomThemes   == { PyDict([base |-> PyStr("light")]),
                    PyDict([base |-> PyStr("dark")]) }
RendererKwargs == { [embed_options |-> PyDict([padding |-> PyInt(10)])],
                    [base_url |-> PyStr("https://cdn")],
                    [output_div |-> PyStr("vis-{}")] }
Metas          == { EmptyDict,
                    [embed_options |-> PyDict([theme |-> PyStr("light")])],
                    [embed_options |-> PyDict(EmptyDict)],
                    [output_div |-> PyStr("x")],
                    [width |-> PyInt(1)] }
Documents      == { PyDict([title |-> PyStr("T")]) }
Hexes          == {"0a"}

\* renderers = RendererRegistry(); renderers.register(name, html_renderer) for
\* the five names; renderers.enable("default")
RECURSIVE RegisterAll(_, _, _)
RegisterAll(self, names, renderer) ==
    IF names = <<>> THEN self
    ELSE RegisterAll(RendererRegistry_register(self, Head(names), renderer).self,
                     Tail(names), renderer)

html_renderer == 1

renderersInit ==
    RendererRegistry_enable(
        RegisterAll([renderers |-> EmptyDict, active |-> None],
                    BuiltinRendererNames, html_renderer),
        "default").self

\* themes = ThemesRegistry(THEMES)
themesInit == [themes |-> THEMES, custom_themes |-> EmptyDict, active |-> None]

Call(op, arg, out) == [op |-> op, arg |-> arg, out |-> out]

RegInit ==
    /\ renderer_objs = <<Renderer_init(EmptyDict)>>
    /\ renderers = renderersInit
    /\ themes = themesInit
    /\ reg_last = Call("import", None, None)
    /\ last_enabled = None

\* HTMLRenderer(**kw)
NewHTMLRenderer ==
    \E kw \in RendererKwargs :
        /\ Len(renderer_objs) < MaxRenderers
        /\ renderer_objs' = Append(renderer_objs, Renderer_init(kw))
        /\ reg_last' = Call("HTMLRenderer", kw, PyRenderer(Len(renderer_objs) + 1))
        /\ UNCHANGED <<renderers, themes, last_enabled>>

\* renderers.register(name, r)
RenderersRegister ==
    \E name \in RegisterNames, r \in DOMAIN renderer_objs :
        LET res == RendererRegistry_register(renderers, name, r) IN
        /\ renderers' = res.self
        /\ reg_last' = Call("renderers.register", <<name, r>>, res.out)
        /\ UNCHANGED <<renderer_objs, themes, last_enabled>>

\* renderers.enable(name)
RenderersEnable ==
    \E name \in RendererNames :
        LET res == RendererRegistry_enable(renderers, name) IN
        /\ renderers' = res.self
        /\ reg_last' = Call("renderers.enable", name, res.out)
        /\ UNCHANGED <<renderer_objs, themes, last_enabled>>

\* renderers.get()
RenderersGet ==
    /\ reg_last' = Call("renderers.get", None, RendererRegistry_get(renderers))
    /\ UNCHANGED <<renderer_objs, renderers, themes, last_enabled>>

\* themes.register(name, theme)
ThemesRegister ==
    \E name \in ThemeNames, theme \in CustomThemes :
        LET res == ThemesRegistry_register(themes, name, theme) IN
        /\ themes' = res.self
        /\ reg_last' = Call("themes.register", <<name, theme>>, res.out)
        /\ UNCHANGED <<renderer_objs, renderers, last_enabled>>

\* themes.enable(name)
ThemesEnable ==
    \E name \in ThemeNames :
        LET res == ThemesRegistry_enable(themes, name) IN
        /\ themes' = res.self
        /\ reg_last' = Call("themes.enable", name, res.out)
        /\ last_enabled' = IF IsError(res.out) THEN last_enabled ELSE PyStr(name)
        /\ UNCHANGED <<renderer_objs, renderers>>

\* themes.get()
ThemesGet ==
    /\ reg_last' = Call("themes.get", None, ThemesRegistry_get(themes))
    /\ UNCHANGED <<renderer_objs, renderers, themes, last_enabled>>

\* spec_to_html(spec, **kw)
CallSpecToHtml ==
    \E spec \in Documents, kw \in Metas :
        /\ reg_last' = Call("spec_to_html", kw, spec_to_html(themes, spec, kw))
        /\ UNCHANGED <<renderer_objs, renderers, themes, last_enabled>>

\* r(spec, **meta) for a Renderer object r
CallHTMLRenderer ==
    \E r \in DOMAIN renderer_objs, spec \in Documents, meta \in Metas, hex \in Hexes :
        LET res == HTMLRenderer_call(themes, renderer_objs[r], spec, meta, hex) IN
        /\ renderer_objs' = [renderer_objs EXCEPT ![r] = res.self]
        /\ reg_last' = Call("HTMLRenderer.__call__", <<r, meta, hex>>, res.out)
        /\ UNCHANGED <<renderers, themes, last_enabled>>

(***************************************************************************)
(* schema objects: the schema table, field writes, copy, channel inference *)
(***************************************************************************)
Undefined        == [t |-> "Undefined"]
Ref(a)           == [t |-> "ref", v |-> a]
PyList(s)        == [t |-> "list", v |-> s]
Channel(cls, f)  == [t |-> "channel", cls |-> cls, v |-> f]
Object(cls, kw)  == [cls |-> cls, kwds |-> kw]

\* the fields each node type declares
Declared(cls) ==
    CASE cls = "Track"        -> {"data", "width", "height", "title", "x", "y", "color"}
      [] cls = "PartialTrack" -> {"data", "width", "height", "title", "x", "y", "color"}
      [] cls = "Root"         -> {"tracks", "title", "layout"}

\* the channel catalog: channel name -> the class of its definitions
channels == [x |-> "X", y |-> "Y", color |-> "Color"]

\* a heap after a call, with the value returned or the exception raised
Heap(heap, out) == [heap |-> heap, out |-> out]

\* a new object is placed at the lowest address no live object has
Alloc(heap) ==
    CHOOSE a \in 1..(Cardinality(DOMAIN heap) + 1) :
        a \notin DOMAIN heap /\ \A b \in 1..(a - 1) : b \in DOMAIN heap

New(heap, obj) ==
    Heap(Update(heap, [a \in {Alloc(heap)} |-> obj]), Ref(Alloc(heap)))

\* construct(**fields): every declared field, unset ones at the sentinel
Construct(heap, cls, fields) ==
    IF ~(DOMAIN fields \subseteq Declared(cls))
    THEN Heap(heap, PyError("UnknownFieldError"))
    ELSE New(heap, Object(cls, Update([k \in Declared(cls) |-> Undefined], fields)))

\* node[key] = value
SetItem(heap, a, key, value) ==
    IF key \notin Declared(heap[a].cls)
    THEN Heap(heap, PyError("UnknownFieldError"))
    ELSE Heap([heap EXCEPT ![a].kwds = Update(@, [k \in {key} |-> value])], None)

\* node.copy(): a deep copy; every object reachable from node is copied
RECURSIVE CopyVal(_, _), CopyObj(_, _), CopyKeys(_, _, _, _), CopyList(_, _, _)
CopyVal(heap, val) ==
    CASE val.t = "ref"  -> CopyObj(heap, val.v)
      [] val.t = "list" -> CopyList(heap, val.v, <<>>)
      [] OTHER          -> Heap(heap, val)
CopyList(heap, items, acc) ==
    IF items = <<>> THEN Heap(heap, PyList(acc))
    ELSE LET r == CopyVal(heap, Head(items))
         IN  CopyList(r.heap, Tail(items), Append(acc, r.out))
CopyKeys(heap, kwds, keys, acc) ==
    IF keys = {} THEN Heap(heap, acc)
    ELSE LET k == CHOOSE k \in keys : TRUE
             r == CopyVal(heap, kwds[k])
         IN  CopyKeys(r.heap, kwds, keys \ {k}, Update(acc, [kk \in {k} |-> r.out]))
CopyObj(heap, a) ==
    LET r == CopyKeys(heap, heap[a].kwds, DOMAIN heap[a].kwds, EmptyDict)
    IN  New(r.heap, Object(heap[a].cls, r.out))

copy(heap, a) == CopyObj(heap, a)

\* infer_encoding_types(args, kwargs, channels): each positional argument goes
\* to the one channel of its class, left to right
RECURSIVE infer_encoding_types(_, _, _)
infer_encoding_types(args, kwargs, catalog) ==
    IF args = <<>> THEN PyDict(kwargs)
    ELSE LET arg   == Head(args)
             names == {c \in DOMAIN catalog : catalog[c] = arg.cls}
         IN  IF Cardinality(names) # 1 THEN PyError("AmbiguousEncodingError")
             ELSE LET c == CHOOSE c \in names : TRUE
                  IN  IF c \in DOMAIN kwargs THEN PyError("DuplicateChannelError")
                      ELSE infer_encoding_types(Tail(args),
                               Update(kwargs, [k \in {c} |-> arg]), catalog)

\* the value of an object with every reference followed
RECURSIVE DeepVal(_, _)
DeepVal(heap, val) ==
    CASE val.t = "ref"  -> [t |-> "object", cls |-> heap[val.v].cls,
                            v |-> [k \in DOMAIN heap[val.v].kwds |->
                                      DeepVal(heap, heap[val.v].kwds[k])]]
      [] val.t = "list" -> PyList([i \in DOMAIN val.v |-> DeepVal(heap, val.v[i])])
      [] OTHER          -> val

\* the addresses a value refers to
RECURSIVE Refs(_)
Refs(val) ==
    CASE val.t = "ref"  -> {val.v}
      [] val.t = "list" -> UNION {Refs(val.v[i]) : i \in DOMAIN val.v}
      [] OTHER          -> {}

\* the objects reachable from a set of addresses
RECURSIVE Reach(_, _)
Reach(heap, as) ==
    LET more == as \cup UNION {UNION {Refs(heap[a].kwds[k]) : k \in DOMAIN heap[a].kwds} :
                                  a \in as}
    IN  IF more = as THEN as ELSE Reach(heap, more)

\* a set of addresses, lowest first
RECURSIVE Ascending(_)
Ascending(S) ==
    IF S = {} THEN <<>>
    ELSE LET m == CHOOSE x \in S : \A y \in S : x <= y
         IN  <<m>> \o Ascending(S \ {m})

Range(seq) == {seq[i] : i \in DOMAIN seq}

\* the objects reached from the addresses todo, in the order they are reached
RECURSIVE Walk(_, _, _)
Walk(heap, todo, seen) ==
    IF todo = <<>> THEN seen
    ELSE LET a == Head(todo)
         IN  IF a \in Range(seen) THEN Walk(heap, Tail(todo), seen)
             ELSE Walk(heap,
                       Ascending(UNION {Refs(heap[a].kwds[k]) : k \in DOMAIN heap[a].kwds})
                           \o Tail(todo),
                       Append(seen, a))

\* a value with each address replaced by its place in seen
RECURSIVE Renumber(_, _)
Renumber(val, seen) ==
    CASE val.t = "ref"  -> Ref(CHOOSE i \in DOMAIN seen : seen[i] = val.v)
      [] val.t = "list" -> PyList([i \in DOMAIN val.v |-> Renumber(val.v[i], seen)])
      [] OTHER          -> val

\* An object no name leads to is reclaimed, and the address of an object is
\* nothing a program observes: the live objects are kept numbered in the order
\* they are reached from the names, taken in the order of nameOrder.
Collect(heap, names, nameOrder) ==
    LET held == SelectSeq([i \in DOMAIN nameOrder |-> names[nameOrder[i]]],
                          LAMBDA val : val # None)
        seen == Walk(heap, [i \in DOMAIN held |-> held[i].v], <<>>)
    IN  [ heap |-> [i \in DOMAIN seen |->
                      Object(heap[seen[i]].cls,
                             [k \in DOMAIN heap[seen[i]].kwds |->
                                 Renumber(heap[seen[i]].kwds[k], seen)])],
          env  |-> [n \in DOMAIN names |-> Renumber(names[n], seen)] ]

(***************************************************************************)
(* api.py: Track, PartialTrack and their builder methods                   *)
(***************************************************************************)
DEFAULT_WIDTH  == 800
DEFAULT_HEIGHT == 180

\* for key, value in kwargs.items(): node[key] = value
RECURSIVE SetItems(_, _, _, _)
SetItems(heap, a, kwargs, keys) ==
    IF keys = {} THEN Heap(heap, None)
    ELSE LET k == CHOOSE k \in keys : TRUE
             r == SetItem(heap, a, k, kwargs[k])
         IN  IF IsError(r.out) THEN r
             ELSE SetItems(r.heap, a, kwargs, keys \ {k})

\* The mutant: the writes go to the receiver, not to a copy.
properties_inplace(heap, self, kwargs) ==
    LET r == SetItems(heap, self, kwargs, DOMAIN kwargs)
    IN  Heap(r.heap, IF IsError(r.out) THEN r.out ELSE Ref(self))

\* The mutant: the fields are put into the copy's mapping directly.
properties_unvalidated(heap, self, kwargs) ==
    LET c == copy(heap, self)
    IN  Heap([c.heap EXCEPT ![c.out.v].kwds = Update(@, kwargs)], c.out)

\* _PropertiesMixen.properties(**kwargs)
properties(heap, self, kwargs) ==
    LET c == copy(heap, self)
        r == SetItems(c.heap, c.out.v, kwargs, DOMAIN kwargs)
    IN  IF IsError(r.out) THEN Heap(heap, r.out) ELSE Heap(r.heap, c.out)

\* _EncodingMixin.encode(*args, **kwargs)
encode(heap, self, args, kwargs) ==
    LET c        == copy(heap, self)
        inferred == infer_encoding_types(args, kwargs, channels)
    IN  IF IsError(inferred) THEN Heap(heap, inferred)
        ELSE LET r == SetItems(c.heap, c.out.v, inferred.v, DOMAIN inferred.v)
             IN  IF IsError(r.out) THEN Heap(heap, r.out) ELSE Heap(r.heap, c.out)

\* dict.pop(key, default)
Pop(kwargs, key, default) == IF key \in DOMAIN kwargs THEN kwargs[key] ELSE default

\* Track.__init__(data=Undefined, **kwargs)
Track_init(heap, data, kwargs) ==
    Construct(heap, "Track",
        Update([k \in DOMAIN kwargs \ {"width", "height"} |-> kwargs[k]],
               [ data   |-> data,
                 width  |-> Pop(kwargs, "width", PyInt(DEFAULT_WIDTH)),
                 height |-> Pop(kwargs, "height", PyInt(DEFAULT_HEIGHT)) ]))

\* PartialTrack(**kwargs)
PartialTrack_init(heap, kwargs) == Construct(heap, "PartialTrack", kwargs)

\* The mutant: the Root holds the receiver itself.
chart_nocopy(heap, self, kwargs) ==
    IF "tracks" \in DOMAIN kwargs THEN Heap(heap, TypeError)
    ELSE Construct(heap, "Root", Update([tracks |-> PyList(<<Ref(self)>>)], kwargs))

\* Track.chart(**kwargs)
chart(heap, self, kwargs) ==
    LET c == copy(heap, self)
    IN  IF "tracks" \in DOMAIN kwargs THEN Heap(heap, TypeError)
        ELSE LET r == Construct(c.heap, "Root",
                          Update([tracks |-> PyList(<<c.out>>)], kwargs))
             IN  IF IsError(r.out) THEN Heap(heap, r.out) ELSE r

(***************************************************************************)
(* api.py: the calls of a program that holds the names d (a data dict),    *)
(* t, u (nodes it constructed or a builder method returned) and r, s       *)
(* (charts)                                                                *)
(***************************************************************************)
Names         == <<"d", "t", "u", "r", "s">>
NodeNames     == {"t", "u"}
RootNames     == {"r", "s"}

TrackKwargs   == { EmptyDict, [width |-> PyInt(400)], [bogus |-> PyInt(1)] }
PartialKwargs == { EmptyDict, [bogus |-> PyInt(1)] }
Overlays      == { [width |-> PyInt(400)],
                   [title |-> PyStr("T")],
                   [width |-> PyInt(400), bogus |-> PyInt(1)] }
\* the (args, kwargs) of the encode calls
EncodeCalls   == { <<<<Channel("X", "pos")>>, EmptyDict>>,
                   <<<<>>, [x |-> Channel("X", "pos")]>>,
                   <<<<Channel("X", "pos")>>, [x |-> Channel("X", "pos")]>>,
                   <<<<Channel("Tooltip", "t")>>, EmptyDict>>,
                   <<<<>>, [colour |-> Channel("Color", "c")]>>,
                   <<<<Channel("X", "pos"), Channel("X", "end")>>, EmptyDict>> }
ChartKwargs   == { [title |-> PyStr("T")], [bogus |-> PyInt(1)],
                   [tracks |-> PyList(<<>>)] }
ItemWrites    == { <<"width", PyInt(400)>>, <<"bogus", PyInt(1)>> }

Bound(n) == env[n] # None

\* the track a Root holds: root.tracks[0]
TrackOf(heap, a) == heap[a].kwds.tracks.v[1]

\* the last call: the method, the name of its receiver, the name its result
\* was bound to, the fields it was given to write, and what it raised (None when
\* it returned)
Did(op, self, to, written, out) ==
    [op |-> op, self |-> self, to |-> to, written |-> written,
     out |-> IF IsError(out) THEN out ELSE None]

\* name = <the call>: nothing is bound when the call raises
Assign(name, res) == IF IsError(res.out) THEN env ELSE [env EXCEPT ![name] = res.out]

\* the program's state after a call that left res, with its result bound to name
Step(name, res) ==
    LET c == Collect(res.heap, Assign(name, res), Names) IN
    /\ objs' = c.heap
    /\ env' = c.env

\* the program's state after a call that left res and bound nothing
Effect(res) ==
    LET c == Collect(res.heap, env, Names) IN
    /\ objs' = c.heap
    /\ env' = c.env

NodeInit ==
    /\ objs = <<>>
    /\ env = [n \in Range(Names) |-> None]
    /\ last = Did("import", "", "", EmptyDict, None)
    /\ root_snap = [n \in RootNames |-> None]
    /\ touched = {}

\* d = gos.csv(url)
NewData ==
    /\ ~Bound("d")
    /\ Step("d", New(objs, Object("dict", csv("a.csv", EmptyDict).v)))
    /\ last' = Did("csv", "", "d", EmptyDict, None)
    /\ UNCHANGED <<root_snap, touched>>

\* t = Track(data, **kw)
NewTrack ==
    \E data \in {Undefined} \cup (IF Bound("d") THEN {env.d} ELSE {}),
       kw \in TrackKwargs :
        LET res == Track_init(objs, data, kw) IN
        /\ Step("t", res)
        /\ last' = Did("Track", "", "t", kw, res.out)
        /\ UNCHANGED <<root_snap, touched>>

\* t = PartialTrack(**kw)
NewPartialTrack ==
    \E kw \in PartialKwargs :
        LET res == PartialTrack_init(objs, kw) IN
        /\ Step("t", res)
        /\ last' = Did("PartialTrack", "", "t", kw, res.out)
        /\ UNCHANGED <<root_snap, touched>>

\* to = n.properties(**kw)
CallProperties ==
    \E n \in NodeNames, to \in NodeNames, kw \in Overlays :
        /\ Bound(n)
        /\ to # n
        /\ LET res == properties(objs, env[n].v, kw) IN
           /\ Step(to, res)
           /\ last' = Did("properties", n, to, kw, res.out)
        /\ UNCHANGED <<root_snap, touched>>

\* to = n.encode(*args, **kw)
CallEncode ==
    \E n \in NodeNames, to \in NodeNames, call \in EncodeCalls :
        /\ Bound(n)
        /\ to # n
        /\ LET args     == call[1]
               kw       == call[2]
               res      == encode(objs, env[n].v, args, kw)
               inferred == infer_encoding_types(args, kw, channels) IN
           /\ Step(to, res)
           /\ last' = Did("encode", n, to,
                          IF IsError(inferred) THEN kw ELSE inferred.v, res.out)
        /\ UNCHANGED <<root_snap, touched>>

\* x = t.chart(**kw)
CallChart ==
    \E x \in RootNames, kw \in ChartKwargs :
        /\ Bound("t")
        /\ objs[env.t.v].cls = "Track"
        /\ LET res == chart(objs, env.t.v, kw) IN
           /\ Step(x, res)
           /\ last' = Did("chart", "t", x, kw, res.out)
           /\ root_snap' = IF IsError(res.out) THEN root_snap
                            ELSE [root_snap EXCEPT
                                     ![x] = DeepVal(res.heap, TrackOf(res.heap, res.out.v))]
           /\ touched' = IF IsError(res.out) THEN touched ELSE touched \ {x}

\* t[key] = value
WriteItem ==
    \E w \in ItemWrites :
        /\ Bound("t")
        /\ LET res == SetItem(objs, env.t.v, w[1], w[2]) IN
           /\ Effect(res)
           /\ last' = Did("setitem", "t", "", [k \in {w[1]} |-> w[2]], res.out)
        /\ UNCHANGED <<root_snap, touched>>

\* d["url"] = "moved.csv"
WriteData ==
    /\ Bound("d")
    /\ Effect(Heap([objs EXCEPT ![env.d.v].kwds = Update(@, [url |-> PyStr("moved.csv")])],
                   None))
    /\ last' = Did("dict.setitem", "d", "", [url |-> PyStr("moved.csv")], None)
    /\ UNCHANGED <<root_snap, touched>>

\* x.tracks[0][key] = value
WriteViaRoot ==
    \E x \in RootNames, w \in ItemWrites :
        /\ Bound(x)
        /\ LET res == SetItem(objs, TrackOf(objs, env[x].v).v, w[1], w[2]) IN
           /\ Effect(res)
           /\ last' = Did("root.setitem", x, "", [k \in {w[1]} |-> w[2]], res.out)
           /\ touched' = IF IsError(res.out) THEN touched ELSE touched \cup {x}
        /\ UNCHANGED root_snap

(***************************************************************************)
(* Specifications                                                          *)
(***************************************************************************)
DataInit == desc = Called("import", "", EmptyDict, None)

Init == DataInit /\ RegInit /\ NodeInit

\* a program that calls the data-source factories
DataNext ==
    /\ \/ CallCsv
       \/ CallBigwig
       \/ CallJson
       \/ CallBeddb
       \/ CallVector
       \/ CallMultivec
       \/ CallBam
       \/ CallMatrix
    /\ UNCHANGED <<reg_vars, node_vars>>

\* a program that uses the registries and renders
RegNext ==
    /\ \/ NewHTMLRenderer
       \/ RenderersRegister
       \/ RenderersEnable
       \/ RenderersGet
       \/ ThemesRegister
       \/ ThemesEnable
       \/ ThemesGet
       \/ CallSpecToHtml
       \/ CallHTMLRenderer
    /\ UNCHANGED <<data_vars, node_vars>>

\* a program that builds nodes with the builder methods
BuildNext ==
    /\ \/ NewData
       \/ NewTrack
       \/ NewPartialTrack
       \/ CallProperties
       \/ CallEncode
    /\ UNCHANGED <<data_vars, reg_vars>>

\* a program that wraps a track into charts and writes to the objects it holds
ChartNext ==
    /\ \/ NewData
       \/ NewTrack
       \/ CallChart
       \/ WriteItem
       \/ WriteData
       \/ WriteViaRoot
    /\ UNCHANGED <<data_vars, reg_vars>>

DataSpec  == Init /\ [][DataNext]_vars
RegSpec   == Init /\ [][RegNext]_vars
BuildSpec == Init /\ [][BuildNext]_vars
ChartSpec == Init /\ [][ChartNext]_vars

(***************************************************************************)
(* Properties                                                              *)
(***************************************************************************)

\* the deep value of what a name is bound to
ValueOf(heap, names, n) == DeepVal(heap, names[n])

\* C1: encode and properties are copy-on-write.  A step that is n.encode(...)
\* or n.properties(...) leaves the value of every name other than the one the
\* result is bound to as it was, the receiver included; when the call raises
\* nothing changes at all; when it returns, the result is a different object
\* than the receiver, has the receiver's fields, holds the written value at
\* each key written and the receiver's value at every other key.
C1_CopyOnWrite ==
    [][ last'.op \in {"encode", "properties"} =>
          /\ \A m \in Range(Names) \ {last'.to} :
                 ValueOf(objs', env', m) = ValueOf(objs, env, m)
          /\ IF IsError(last'.out)
             THEN ValueOf(objs', env', last'.to) = ValueOf(objs, env, last'.to)
             ELSE LET before == ValueOf(objs, env, last'.self).v
                      after  == ValueOf(objs', env', last'.to).v
                  IN  /\ env'[last'.to] # env'[last'.self]
                      /\ DOMAIN after = DOMAIN before
                      /\ \A k \in DOMAIN after :
                             after[k] = IF k \in DOMAIN last'.written
                                        THEN last'.written[k] ELSE before[k]
      ]_vars

\* C1 witness: an encode on a node that properties returned, itself built on
\* a track with data, has returned.
C1_Witness ==
    /\ last.op = "encode" /\ last.self = "u" /\ last.to = "t" /\ last.out = None
    /\ objs[env.u.v].kwds.width = PyInt(400)
    /\ objs[env.u.v].kwds.data.t = "ref"
    /\ objs[env.t.v].kwds.x = Channel("X", "pos")

\* C2: in every state, each chart holds exactly one track; the objects
\* reached from that track are reached from no other name; and unless the
\* track was written through the chart itself it still has the value the
\* receiver had when chart() was called, whatever has been written since to
\* the receiver, to its data or through the other chart.
C2_ChartCopies ==
    /\ \A x \in RootNames : Bound(x) =>
          /\ Len(objs[env[x].v].kwds.tracks.v) = 1
          /\ x \notin touched =>
                 DeepVal(objs, TrackOf(objs, env[x].v)) = root_snap[x]
          /\ Reach(objs, Refs(TrackOf(objs, env[x].v)))
                 \cap Reach(objs, UNION {Refs(env[n]) : n \in Range(Names) \ {x}}) = {}
    /\ (last.op = "chart" /\ last.out = None) =>
          root_snap[last.to] = ValueOf(objs, env, "t")

\* C2 witness: two charts of one track with data; the track and its data have
\* been written since, the other chart too, and the first chart has not.
C2_Witness ==
    /\ Bound("r") /\ Bound("s") /\ Bound("t") /\ Bound("d")
    /\ "r" \notin touched /\ "s" \in touched
    /\ root_snap["r"].v.data.t = "object"
    /\ root_snap["r"].v.width = PyInt(DEFAULT_WIDTH)
    /\ root_snap["r"].v.data.v.url = PyStr("a.csv")
    /\ objs[env.t.v].kwds.width = PyInt(400)
    /\ objs[env.t.v].kwds.data = env.d
    /\ objs[env.d.v].kwds.url = PyStr("moved.csv")

\* the theme the most recent successful themes.enable selected
SelectedTheme ==
    IF last_enabled.v \in THEMES THEN last_enabled
    ELSE IF last_enabled.v \in DOMAIN themes.custom_themes
         THEN themes.custom_themes[last_enabled.v]
         ELSE PyError("KeyError")

\* C3: once an enable has succeeded, get() answers with the theme of the most
\* recent successful enable(name): the name for a built-in theme, the object now
\* registered under the name for a custom theme.
C3_EnableGet ==
    last_enabled # None =>
        /\ ~IsError(SelectedTheme)
        /\ ThemesRegistry_get(themes) = SelectedTheme
        /\ reg_last.op = "themes.get" => reg_last.out = SelectedTheme

\* C3 witness: get() has answered with the custom theme that is enabled.
C3_Witness ==
    /\ reg_last.op = "themes.get"
    /\ last_enabled = PyStr("mytheme")
    /\ reg_last.out = PyDict([base |-> PyStr("dark")])

\* C4: enable(name) with an unregistered name raises AssertionError and
\* leaves the registry as it was, so get() answers as before; for the theme
\* registry and for the renderer registry.
C4_EnableUnknown ==
    [][ /\ ( /\ reg_last'.op = "themes.enable"
             /\ reg_last'.arg \notin THEMES \cup DOMAIN themes.custom_themes ) =>
               /\ reg_last'.out = AssertionError
               /\ themes' = themes
               /\ ThemesRegistry_get(themes') = ThemesRegistry_get(themes)
        /\ ( /\ reg_last'.op = "renderers.enable"
             /\ reg_last'.arg \notin DOMAIN renderers.renderers ) =>
               /\ reg_last'.out = AssertionError
               /\ renderers' = renderers
               /\ RendererRegistry_get(renderers') = RendererRegistry_get(renderers)
      ]_vars

\* C4 witness: a failed themes.enable while a theme is enabled.
C4_Witness ==
    /\ reg_last.op = "themes.enable"
    /\ reg_last.arg = "not-a-theme"
    /\ reg_last.out = AssertionError
    /\ themes.active = PyStr("light")

\* C5 as stated: get() on a registry with nothing enabled raises.
C5_GetRaises ==
    (reg_last.op = "themes.get" /\ last_enabled = None) => IsError(reg_last.out)

\* C5 (amended): get() on a registry on which no enable has succeeded returns
\* None, without raising; it returns no theme while nothing is enabled.
C5_GetNone ==
    last_enabled = None =>
        /\ themes.active = None
        /\ ThemesRegistry_get(themes) = None
        /\ reg_last.op = "themes.get" => reg_last.out = None

\* C5 witness: get() called with nothing enabled, a custom theme registered.
C5_Witness ==
    /\ reg_last.op = "themes.get"
    /\ last_enabled = None
    /\ "mytheme" \in DOMAIN themes.custom_themes

\* C6: themes.register(name, theme) with a built-in name raises and leaves
\* the registry as it was, with any other name it stores the theme; no
\* built-in name is ever a key of custom_themes; renderers.register(name, r)
\* never raises and puts r under name, replacing what was there and leaving
\* the other names and the active slot alone.
C6_Register ==
    [][ /\ reg_last'.op = "themes.register" =>
               IF reg_last'.arg[1] \in THEMES
               THEN reg_last'.out = AssertionError /\ themes' = themes
               ELSE /\ reg_last'.out = None
                    /\ themes'.custom_themes[reg_last'.arg[1]] = reg_last'.arg[2]
                    /\ themes'.active = themes.active
        /\ DOMAIN themes'.custom_themes \cap THEMES = {}
        /\ reg_last'.op = "renderers.register" =>
               /\ reg_last'.out = None
               /\ renderers'.renderers[reg_last'.arg[1]] = reg_last'.arg[2]
               /\ \A n \in DOMAIN renderers.renderers \ {reg_last'.arg[1]} :
                      renderers'.renderers[n] = renderers.renderers[n]
               /\ renderers'.active = renderers.active
      ]_vars

\* C6 witness: a register under a built-in name has failed, with a custom
\* theme already registered.
C6_Witness ==
    /\ reg_last.op = "themes.register"
    /\ reg_last.arg[1] = "dark"
    /\ reg_last.out = AssertionError
    /\ DOMAIN themes.custom_themes = {"mytheme"}

\* the class of the receiver of the last call
ReceiverClass == objs[env[last.self].v].cls

\* C7: no Track or PartialTrack holds a field its type does not declare, and
\* a properties or encode call given an undeclared key raises at the call
\* (properties: UnknownFieldError) and binds nothing.
C7_UnknownFields ==
    /\ \A a \in DOMAIN objs :
          objs[a].cls \in {"Track", "PartialTrack"} =>
              DOMAIN objs[a].kwds \subseteq Declared(objs[a].cls)
    /\ ( /\ last.op \in {"properties", "encode"}
         /\ ~(DOMAIN last.written \subseteq Declared(ReceiverClass)) ) =>
           /\ IsError(last.out)
           /\ last.op = "properties" => last.out = PyError("UnknownFieldError")

\* C7 witness: properties with an undeclared key next to a declared one has
\* raised UnknownFieldError.
C7_Witness ==
    /\ last.op = "properties"
    /\ DOMAIN last.written = {"width", "bogus"}
    /\ last.out = PyError("UnknownFieldError")

\* C8: a factory called with a url and options returns a dict with its own
\* tag under type, the url under url and every option as given, and nothing
\* else; with an option named type or url it raises instead.
C8_Descriptor ==
    desc.op # "import" =>
        IF DOMAIN desc.kwargs \cap {"type", "url"} # {}
        THEN IsError(desc.out)
        ELSE /\ desc.out.t = "dict"
             /\ DOMAIN desc.out.v = {"type", "url"} \cup DOMAIN desc.kwargs
             /\ desc.out.v.type = PyStr(desc.op)
             /\ desc.out.v.url = PyStr(desc.url)
             /\ \A k \in DOMAIN desc.kwargs : desc.out.v[k] = desc.kwargs[k]

\* C8 witness: bam called with two options has returned a descriptor.
C8_Witness ==
    /\ desc.op = "bam"
    /\ DOMAIN desc.kwargs = {"sep", "chromosomeField"}
    /\ desc.out.t = "dict"

\* the embed_options argument among keyword arguments kw
GivenOptions(kw) == IF "embed_options" \in DOMAIN kw THEN kw.embed_options ELSE None

\* what is embedded for keyword arguments kw under the theme registry has active
Embedded(registry, kw) ==
    JsonDumps(IF Truthy(GivenOptions(kw)) THEN GivenOptions(kw)
              ELSE PyDict([padding |-> PyInt(0), theme |-> ThemesRegistry_get(registry)]))

\* the keyword arguments HTMLRenderer.__call__ passes on: the stored kwargs
\* overlaid by meta
Effective(r, meta) == Update(renderer_objs[r].kwargs, meta)

\* C9: spec_to_html embeds the given embed_options when they are truthy and
\* {padding: 0, theme: themes.get()} of the moment of the call otherwise;
\* HTMLRenderer.__call__ renders with its stored kwargs overlaid by meta and
\* leaves the stored kwargs as they were.
C9_EmbedTheme ==
    [][ /\ (reg_last'.op = "spec_to_html" /\ ~IsError(reg_last'.out)) =>
               reg_last'.out.embed_options = Embedded(themes', reg_last'.arg)
        /\ reg_last'.op = "HTMLRenderer.__call__" =>
               /\ renderer_objs' = renderer_objs
               /\ ~IsError(reg_last'.out) =>
                      LET html == reg_last'.out.v["text/html"]
                          kw   == Effective(reg_last'.arg[1], reg_last'.arg[2])
                      IN  /\ html.embed_options = Embedded(themes', kw)
                          /\ html.base_url = Update(SpecToHtmlDefaults, kw).base_url
      ]_vars

\* C9 witness: a renderer constructed with a base_url, called without
\* embed_options while the theme dark is enabled, has rendered with dark.
C9_Witness ==
    /\ reg_last.op = "HTMLRenderer.__call__"
    /\ reg_last.arg[2] = EmptyDict
    /\ ~IsError(reg_last.out)
    /\ last_enabled = PyStr("dark")
    /\ reg_last.out.v["text/html"].base_url = PyStr("https://cdn")
    /\ reg_last.out.v["text/html"].embed_options.v.theme = [j |-> "string", v |-> "dark"]

\* C10: the active slot of the renderer registry is empty or a registered
\* name and that of the theme registry is empty, a built-in name or a
\* registered custom name; get() of either never raises KeyError, and get() of
\* the module-level renderer registry answers with a registered renderer.
C10_ActiveSlot ==
    /\ renderers.active = None \/ renderers.active.v \in DOMAIN renderers.renderers
    /\ \/ themes.active = None
       \/ themes.active.v \in THEMES
       \/ themes.active.v \in DOMAIN themes.custom_themes
    /\ ~IsError(ThemesRegistry_get(themes))
    /\ RendererRegistry_get(renderers).t = "Renderer"
    /\ RendererRegistry_get(renderers).v \in DOMAIN renderer_objs
    /\ reg_last.op \in {"themes.get", "renderers.get"} => ~IsError(reg_last.out)

\* C10 witness: get() of the renderer registry after a failed enable, with a
\* renderer registered by the program enabled.
C10_Witness ==
    /\ reg_last.op = "renderers.get"
    /\ renderers.active = PyStr("custom")
    /\ reg_last.out = PyRenderer(2)

====
